---- MODULE Spec2Model ----
(***************************************************************************)
(* Model of crates/next-core/src/next_client/context.rs: the client-side   *)
(* configuration builders of next-core.                                    *)
(*                                                                         *)
(*   get_client_runtime_entries       runtime entry sequencing             *)
(*   get_client_resolve_options_context / get_client_module_options_context*)
(*                                    the two configuration trees          *)
(*   resolve / resolve_request        lookup in a tree, plugin chain       *)
(*   defines                          compile-time define table            *)
(*   get_client_chunking_context      chunking context builder             *)
(*                                                                         *)
(* One behaviour of Spec is one call of one of these functions: `call`     *)
(* names the function, the other functions' variables stay idle.           *)
(***************************************************************************)
EXTENDS Integers, Sequences, FiniteSets, TLC

VARIABLES
    call,             \* which function this behaviour runs
    \* ---- get_client_runtime_entries
    ty,               \* ClientContextType of the call
    mode,             \* NextMode of the call
    project_root,     \* project root path of the call
    probe,            \* what assert_can_resolve_react_refresh answers
    e_pc,             \* position in get_client_runtime_entries
    runtime_entries,  \* the local `runtime_entries` vector
    e_result,         \* the returned Result, <<>> while running
    \* ---- the configuration trees and the lookups in them
    next_config,              \* the NextConfig of the call
    foreign_condition,        \* what foreign_code_context_condition returns
    resolve_options_context,  \* the built ResolveOptionsContext, <<>> before
    module_options_context,   \* the built ModuleOptionsContext, <<>> before
    t_pc,                     \* position in the builders and in resolve
    tree,                     \* resolve: which built tree is looked up in
    path,                     \* resolve: the path looked up
    node,                     \* resolve: the context being examined
    idx,                      \* resolve: index of the rule being examined
    descents,                 \* resolve: rule indices descended into so far
    resolved,                 \* resolve: the context returned, <<>> before
    \* ---- resolve_request: the plugin chain of the built resolve context
    plugin_answers,   \* what each plugin answers for the request
    default_answer,   \* what the default resolution algorithm answers
    c_pc,             \* position in resolve_request
    c_idx,            \* index of the plugin to run next
    invoked,          \* the plugins (and "default") invoked so far, in order
    outcome,          \* the result of the request so far, <<>> for none
    \* ---- get_client_chunking_context
    asset_prefix,      \* the asset_prefix argument
    module_id_strategy,\* the module_id_strategy argument
    builder,           \* the BrowserChunkingContext builder, <<>> when none
    k_pc,              \* position in get_client_chunking_context
    build_calls,       \* number of build() calls made on the builder
    chunking_context,  \* the built chunking context, <<>> before
    \* ---- defines
    define_env,       \* the IndexMap<RcStr, RcStr>, as its entries in order
    d_pc,             \* position in defines
    d_i,              \* index of the entry the loop is at
    defines,          \* the local `defines` IndexMap, as its entries in order
    d_result          \* the returned CompileTimeDefines, <<>> before

inputVars == <<call, ty, mode, project_root>>

entriesVars == <<probe, e_pc, runtime_entries, e_result>>

treeVars == <<next_config, foreign_condition, resolve_options_context,
              module_options_context, t_pc, tree, path, node, idx, descents, resolved>>

chainVars == <<plugin_answers, default_answer, c_pc, c_idx, invoked, outcome>>

chunkVars == <<asset_prefix, module_id_strategy, builder, k_pc, build_calls,
               chunking_context>>

definesVars == <<define_env, d_pc, d_i, defines, d_result>>

vars == <<inputVars, entriesVars, treeVars, chainVars, chunkVars, definesVars>>

\* Option<T>: None is <<>>, Some(x) is <<x>>.
None == <<>>
Some(x) == <<x>>

(***************************************************************************)
(* Inputs                                                                  *)
(***************************************************************************)
ClientContextType == {"Pages", "App", "Fallback", "Other"}

NextMode == {"Development", "Build"}

is_development(m) == m = "Development"

ProjectRoots == {"[project]/app1", "[project]/app2"}

\* Requests the react-refresh probe may hand back.
RefreshRequests == {"@next/react-refresh-utils/dist/runtime", "react-refresh/runtime"}

\* assert_can_resolve_react_refresh(..).await? : Found(request), NotFound, or
\* the awaited task itself fails and `?` propagates the error.
ProbeOutcomes ==
    {<<"Found", r>> : r \in RefreshRequests} \cup {<<"NotFound">>, <<"Error">>}

as_request(p) == IF p[1] = "Found" THEN Some(p[2]) ELSE None

(***************************************************************************)
(* get_client_runtime_entries                                              *)
(***************************************************************************)
AppBootstrapRequest == "next/dist/client/app-next-turbopack.js"

\* RuntimeEntry::Request(request, project_root.join("_"))
RuntimeEntryRequest(request, root) == [request |-> request, path |-> <<root, "_">>]

\* faulty variant: the new entry goes to the front
pushFront(vec, entry) == <<entry>> \o vec

\* Vec::push (lines 407-408, 413): the new entry goes to the end
push(vec, entry) == vec \o <<entry>>

\* faulty variant: a probe answering NotFound aborts the call as well
ProbeFailsOnNotFound(p) == p[1] \in {"Error", "NotFound"}

\* line 400: `.await?` returns early exactly when the probe task failed
ProbeFails(p) == p[1] = "Error"

\* faulty variant: the refresh entry is never pushed
NeverRefresh(vec, p, root) == vec

\* lines 398-409 applied to the vector: the refresh entry is pushed when the
\* probe gave a request
PushRefresh(vec, p, root) ==
    LET enable_react_refresh == as_request(p) IN
    IF enable_react_refresh # None
      THEN push(vec, RuntimeEntryRequest(enable_react_refresh[1], root))
      ELSE vec

\* lines 412-422 applied to the vector
PushApp(vec, t, root) ==
    IF t = "App" THEN push(vec, RuntimeEntryRequest(AppBootstrapRequest, root)) ELSE vec

EntriesIdle ==
    /\ probe = <<"NotFound">> /\ e_pc = "idle"
    /\ runtime_entries = <<>> /\ e_result = <<>>

EntriesInit ==
    /\ probe \in ProbeOutcomes
    /\ e_pc = "start"
    /\ runtime_entries = <<>>
    /\ e_result = <<>>

\* line 397: if mode.await?.is_development()
E_CheckMode ==
    /\ e_pc = "start"
    /\ e_pc' = IF is_development(mode) THEN "probe" ELSE "app"
    /\ UNCHANGED <<inputVars, treeVars, chainVars, chunkVars, definesVars, probe, runtime_entries, e_result>>

\* lines 398-409: the probe and the push of the refresh entry
E_Probe ==
    /\ e_pc = "probe"
    /\ IF ProbeFails(probe)
         THEN /\ e_result' = <<"Err">>
              /\ e_pc' = "done"
              /\ UNCHANGED runtime_entries
         ELSE /\ runtime_entries' = PushRefresh(runtime_entries, probe, project_root)
              /\ e_pc' = "app"
              /\ UNCHANGED e_result
    /\ UNCHANGED <<inputVars, treeVars, chainVars, chunkVars, definesVars, probe>>

\* lines 412-422
E_AppEntry ==
    /\ e_pc = "app"
    /\ runtime_entries' = PushApp(runtime_entries, ty, project_root)
    /\ e_pc' = "return"
    /\ UNCHANGED <<inputVars, treeVars, chainVars, chunkVars, definesVars, probe, e_result>>

\* line 424: Ok(Vc::cell(runtime_entries))
E_Return ==
    /\ e_pc = "return"
    /\ e_result' = <<"Ok", runtime_entries>>
    /\ e_pc' = "done"
    /\ UNCHANGED <<inputVars, treeVars, chainVars, chunkVars, definesVars, probe, runtime_entries>>

EntriesNext == E_CheckMode \/ E_Probe \/ E_AppEntry \/ E_Return

(***************************************************************************)
(* Paths and conditions                                                    *)
(***************************************************************************)
MaxDepth == 2

\* The project file system and the three embedded ones (next_js_fs,
\* turbopack_ecmascript_runtime::embed_fs, turbopack_node::embed_js::embed_fs).
FileSystems == {"project", "next", "turbopack_runtime", "turbopack_node"}

Segments == {"node_modules", "src"}

SegSeqs(n) == UNION {[1..k -> Segments] : k \in 0..n}

\* A FileSystemPath: a file system and the segments below its root.
Paths == {[fs |-> f, segs |-> q] : f \in FileSystems, q \in SegSeqs(MaxDepth) \ {<<>>}}

FsRoot(f) == [fs |-> f, segs |-> <<>>]

InPath(root) == [tag |-> "InPath", root |-> root]

AnyOf(list) == [tag |-> "Any", list |-> list]

IsPrefix(a, b) == Len(a) <= Len(b) /\ SubSeq(b, 1, Len(a)) = a

\* ContextCondition::matches: InPath is containment at segment granularity,
\* Any is the disjunction of its members.
RECURSIVE matches(_, _)
matches(condition, p) ==
    IF condition.tag = "InPath"
      THEN p.fs = condition.root.fs /\ IsPrefix(condition.root.segs, p.segs)
      ELSE \E i \in 1..Len(condition.list) : matches(condition.list[i], p)

\* foreign_code_context_condition(next_config, project_path): the dependency
\* directory of one file system, or of any of them.
ForeignRoots == {[fs |-> f, segs |-> <<"node_modules">>] : f \in FileSystems}

ForeignConditions ==
    {InPath(r) : r \in ForeignRoots}
    \cup {AnyOf(<<InPath([fs |-> "project", segs |-> <<"node_modules">>]),
                InPath([fs |-> "next", segs |-> <<"node_modules">>]),
                InPath([fs |-> "turbopack_runtime", segs |-> <<"node_modules">>]),
                InPath([fs |-> "turbopack_node", segs |-> <<"node_modules">>])>>)}

\* faulty variant: the turbopack_node embedded root is left out
internal_assets_conditions_two_roots ==
    AnyOf(<<InPath(FsRoot("next")), InPath(FsRoot("turbopack_runtime"))>>)

\* lines 182-188
internal_assets_conditions ==
    AnyOf(<<InPath(FsRoot("next")),
          InPath(FsRoot("turbopack_runtime")),
          InPath(FsRoot("turbopack_node"))>>)

(***************************************************************************)
(* Struct construction                                                     *)
(***************************************************************************)
\* The value an external function returns, kept uninterpreted.
Call(fn, args) == <<fn, args>>

\* S { over.., ..base }: the fields named in `over` take over's values, every
\* other field is copied from `base`.
StructUpdate(base, over) ==
    [f \in DOMAIN base |-> IF f \in DOMAIN over THEN over[f] ELSE base[f]]

NextConfigs == [mdx_rs : {None, Some("MdxTransformOptions")}, use_swc_css : BOOLEAN]

(***************************************************************************)
(* get_client_resolve_options_context                                      *)
(***************************************************************************)
DefaultResolveOptionsContext ==
    [enable_node_modules |-> None, custom_conditions |-> <<>>, import_map |-> None,
     fallback_import_map |-> None, resolved_map |-> None, browser |-> FALSE,
     module |-> FALSE, before_resolve_plugins |-> <<>>, after_resolve_plugins |-> <<>>,
     enable_typescript |-> FALSE, enable_react |-> FALSE, enable_mjs_extension |-> FALSE,
     custom_extensions |-> None, rules |-> <<>>]

\* faulty variant: the font plugin is listed first
before_resolve_plugins_font_first ==
    <<"NextFontLocalResolvePlugin", "InvalidServerOnlyResolvePlugin",
      "ModuleFeatureReportResolvePlugin">>

\* lines 158-162
before_resolve_plugins ==
    <<"InvalidServerOnlyResolvePlugin", "ModuleFeatureReportResolvePlugin",
      "NextFontLocalResolvePlugin">>

\* lines 163-165
after_resolve_plugins == <<"NextSharedRuntimeResolvePlugin">>

\* lines 150-167: the fields the first ResolveOptionsContext literal names
ResolveBaseOver ==
    [enable_node_modules |-> Some(Call("root", <<project_root>>)),
     custom_conditions |-> <<Call("condition", <<mode>>)>>,
     import_map |-> Some(Call("get_next_client_import_map", <<project_root, ty, next_config>>)),
     fallback_import_map |-> Some(Call("get_next_client_fallback_import_map", <<ty>>)),
     resolved_map |-> Some(Call("get_next_client_resolved_map", <<project_root, mode>>)),
     browser |-> TRUE,
     module |-> TRUE,
     before_resolve_plugins |-> before_resolve_plugins,
     after_resolve_plugins |-> after_resolve_plugins]

\* lines 150-167: `module_options_context` of get_client_resolve_options_context
ResolveBase == StructUpdate(DefaultResolveOptionsContext, ResolveBaseOver)

\* faulty variant: the rule's context is a default one, not the clone
ResolveRuleContextFromDefault == DefaultResolveOptionsContext

\* line 175: module_options_context.clone()
ResolveRuleContext == ResolveBase

\* lines 168-177: the fields the returned ResolveOptionsContext literal names
ResolveRootOver ==
    [enable_typescript |-> TRUE,
     enable_react |-> TRUE,
     enable_mjs_extension |-> TRUE,
     custom_extensions |-> Call("resolve_extension", <<next_config>>),
     rules |-> <<<<foreign_condition, ResolveRuleContext>>>>]

\* lines 168-178: the returned ResolveOptionsContext
ResolveRoot == StructUpdate(ResolveBase, ResolveRootOver)

(***************************************************************************)
(* get_client_module_options_context                                       *)
(***************************************************************************)
DefaultEcmascriptOptionsContext ==
    [enable_typeof_window_inlining |-> None, enable_jsx |-> None,
     enable_typescript_transform |-> None, enable_decorators |-> None]

DefaultCssOptionsContext == [use_swc_css |-> FALSE]

DefaultModuleOptionsContext ==
    [ecmascript |-> DefaultEcmascriptOptionsContext,
     css |-> DefaultCssOptionsContext,
     preset_env_versions |-> None, execution_context |-> None,
     tree_shaking_mode |-> None, enable_postcss_transform |-> None,
     side_effect_free_packages |-> <<>>, enable_webpack_loaders |-> None,
     enable_mdx_rs |-> None, module_rules |-> <<>>, rules |-> <<>>]

\* line 219
conditions == <<"browser", Call("condition", <<mode>>)>>

\* lines 264-268
postcss_transform_options ==
    [postcss_package |-> Some(Call("get_postcss_package_mapping", <<project_root>>)),
     config_location |-> "ProjectPathOrLocalPath"]

\* lines 269-274
postcss_foreign_transform_options ==
    StructUpdate(postcss_transform_options, [config_location |-> "ProjectPath"])

\* lines 245-262: next_client_rules extended by the additional rules
next_client_rules ==
    <<Call("get_next_client_transforms_rules", <<next_config, ty, mode, FALSE>>),
      Call("additional_rules", <<next_config, project_root>>)>>

\* lines 247-248
foreign_next_client_rules ==
    <<Call("get_next_client_transforms_rules", <<next_config, ty, mode, TRUE>>)>>

\* lines 279-282
ModuleBaseEcmascriptOver == [enable_typeof_window_inlining |-> Some("Object")]

\* lines 278-288: the fields the first ModuleOptionsContext literal names
ModuleBaseOver ==
    [ecmascript |-> StructUpdate(DefaultEcmascriptOptionsContext, ModuleBaseEcmascriptOver),
     preset_env_versions |-> Some("env"),
     execution_context |-> Some("execution_context"),
     tree_shaking_mode |->
         Call("tree_shaking_mode_for_user_code", <<next_config, is_development(mode)>>),
     enable_postcss_transform |-> Some(postcss_transform_options),
     side_effect_free_packages |-> Call("optimize_package_imports", <<next_config>>)]

\* lines 278-289: the first `module_options_context`
ModuleBase == StructUpdate(DefaultModuleOptionsContext, ModuleBaseOver)

\* lines 293-296
ForeignEcmascriptOver == [enable_typeof_window_inlining |-> None]

\* lines 292-301: the fields the foreign_codes_options_context literal names
ForeignOver ==
    [ecmascript |-> StructUpdate(ModuleBase.ecmascript, ForeignEcmascriptOver),
     enable_webpack_loaders |->
         Call("webpack_loader_options", <<next_config, TRUE, conditions \o <<"foreign">>>>),
     enable_postcss_transform |-> Some(postcss_foreign_transform_options),
     module_rules |-> foreign_next_client_rules,
     tree_shaking_mode |->
         Call("tree_shaking_mode_for_foreign_code", <<next_config, is_development(mode)>>)]

\* faulty variant: `..Default::default()` in place of the clone of the base
foreign_codes_options_context_from_default ==
    StructUpdate(DefaultModuleOptionsContext, ForeignOver)

\* lines 292-303
foreign_codes_options_context == StructUpdate(ModuleBase, ForeignOver)

\* lines 329-335
InternalEcmascriptOver ==
    [enable_typescript_transform |-> Some("TypescriptTransformOptions::default"),
     enable_jsx |-> Some("JsxTransformOptions::default")]

\* lines 328-335: the fields the internal-assets literal names
InternalOver ==
    [ecmascript |-> StructUpdate(ModuleBase.ecmascript, InternalEcmascriptOver)]

\* lines 328-337
internal_assets_options_context == StructUpdate(ModuleBase, InternalOver)

\* faulty variant: the two rules are listed the other way round
rules_internal_first ==
    <<<<internal_assets_conditions, internal_assets_options_context>>,
      <<foreign_condition, foreign_codes_options_context>>>>

\* lines 321-340
rules ==
    <<<<foreign_condition, foreign_codes_options_context>>,
      <<internal_assets_conditions, internal_assets_options_context>>>>

\* lines 309-314
ModuleRootEcmascriptOver ==
    [enable_jsx |-> Some(Call("get_jsx_transform_options", <<project_root, mode, next_config>>)),
     enable_typescript_transform |->
         Some(Call("get_typescript_transform_options", <<project_root>>)),
     enable_decorators |-> Some(Call("get_decorators_transform_options", <<project_root>>))]

\* lines 317-320
ModuleRootCssOver == [use_swc_css |-> next_config.use_swc_css]

\* lines 305-341: the fields the returned ModuleOptionsContext literal names
ModuleRootOver ==
    [ecmascript |-> StructUpdate(ModuleBase.ecmascript, ModuleRootEcmascriptOver),
     enable_webpack_loaders |->
         Call("webpack_loader_options", <<next_config, FALSE, conditions>>),
     enable_mdx_rs |-> next_config.mdx_rs,
     css |-> StructUpdate(ModuleBase.css, ModuleRootCssOver),
     rules |-> rules,
     module_rules |-> next_client_rules]

\* lines 305-343: the returned ModuleOptionsContext
ModuleRoot == StructUpdate(ModuleBase, ModuleRootOver)

(***************************************************************************)
(* The builders, and resolve(node, path)                                   *)
(***************************************************************************)
TreeIdle ==
    /\ next_config = [mdx_rs |-> None, use_swc_css |-> FALSE]
    /\ foreign_condition = InPath([fs |-> "project", segs |-> <<"node_modules">>])
    /\ resolve_options_context = <<>> /\ module_options_context = <<>>
    /\ t_pc = "idle" /\ tree = "" /\ path = <<>> /\ node = <<>> /\ idx = 0
    /\ descents = <<>> /\ resolved = <<>>

TreeInit ==
    /\ next_config \in NextConfigs
    /\ foreign_condition \in ForeignConditions
    /\ resolve_options_context = <<>> /\ module_options_context = <<>>
    /\ t_pc = "start" /\ tree = "" /\ path = <<>> /\ node = <<>> /\ idx = 0
    /\ descents = <<>> /\ resolved = <<>>

\* lines 201-202 (137-180): get_client_resolve_options_context
T_BuildResolveOptions ==
    /\ t_pc = "start"
    /\ resolve_options_context' = ResolveRoot
    /\ t_pc' = "module"
    /\ UNCHANGED <<inputVars, entriesVars, chainVars, chunkVars, definesVars, next_config, foreign_condition,
                   module_options_context, tree, path, node, idx, descents, resolved>>

\* lines 204-346: the rest of get_client_module_options_context
T_BuildModuleOptions ==
    /\ t_pc = "module"
    /\ module_options_context' = ModuleRoot
    /\ t_pc' = "built"
    /\ UNCHANGED <<inputVars, entriesVars, chainVars, chunkVars, definesVars, next_config, foreign_condition,
                   resolve_options_context, tree, path, node, idx, descents, resolved>>

\* resolve(node, path) on one of the two built trees
R_Start ==
    /\ t_pc = "built"
    /\ \E p \in Paths, t \in {"resolve_options_context", "module_options_context"} :
          /\ path' = p
          /\ tree' = t
          /\ node' = IF t = "module_options_context"
                       THEN module_options_context
                       ELSE resolve_options_context
    /\ idx' = 1
    /\ descents' = <<>>
    /\ t_pc' = "resolving"
    /\ UNCHANGED <<inputVars, entriesVars, chainVars, chunkVars, definesVars, next_config, foreign_condition,
                   resolve_options_context, module_options_context, resolved>>

\* the rule at idx matches: move into its context
R_Descend ==
    /\ t_pc = "resolving"
    /\ idx <= Len(node.rules)
    /\ matches(node.rules[idx][1], path)
    /\ node' = node.rules[idx][2]
    /\ descents' = Append(descents, idx)
    /\ idx' = 1
    /\ UNCHANGED <<inputVars, entriesVars, chainVars, chunkVars, definesVars, next_config, foreign_condition,
                   resolve_options_context, module_options_context, t_pc, tree, path,
                   resolved>>

\* the rule at idx does not match: try the next one
R_Skip ==
    /\ t_pc = "resolving"
    /\ idx <= Len(node.rules)
    /\ ~matches(node.rules[idx][1], path)
    /\ idx' = idx + 1
    /\ UNCHANGED <<inputVars, entriesVars, chainVars, chunkVars, definesVars, next_config, foreign_condition,
                   resolve_options_context, module_options_context, t_pc, tree, path, node,
                   descents, resolved>>

\* no rule matches: the node's own settings are the answer
R_Return ==
    /\ t_pc = "resolving"
    /\ idx > Len(node.rules)
    /\ resolved' = node
    /\ t_pc' = "resolved"
    /\ UNCHANGED <<inputVars, entriesVars, chainVars, chunkVars, definesVars, next_config, foreign_condition,
                   resolve_options_context, module_options_context, tree, path, node, idx,
                   descents>>

(***************************************************************************)
(* resolve_request: the plugin chain of the built ResolveOptionsContext    *)
(***************************************************************************)
PluginNames ==
    {"InvalidServerOnlyResolvePlugin", "ModuleFeatureReportResolvePlugin",
     "NextFontLocalResolvePlugin", "NextSharedRuntimeResolvePlugin"}

ChainIdle ==
    /\ plugin_answers = [n \in PluginNames |-> "decline"]
    /\ default_answer = "unresolvable"
    /\ c_pc = "idle" /\ c_idx = 0 /\ invoked = <<>> /\ outcome = <<>>

\* a request arrives at the built resolve context
P_Start ==
    /\ t_pc = "built"
    /\ plugin_answers' \in [PluginNames -> {"decline", "terminal"}]
    /\ default_answer' \in {"resolved", "unresolvable"}
    /\ c_pc' = "before"
    /\ c_idx' = 1
    /\ invoked' = <<>>
    /\ outcome' = <<>>
    /\ t_pc' = "request"
    /\ UNCHANGED <<inputVars, entriesVars, chunkVars, definesVars, next_config, foreign_condition,
                   resolve_options_context, module_options_context, tree, path, node,
                   idx, descents, resolved>>

\* the next before-plugin runs; a terminal answer ends the request
P_Before ==
    /\ c_pc = "before"
    /\ c_idx <= Len(resolve_options_context.before_resolve_plugins)
    /\ LET plugin == resolve_options_context.before_resolve_plugins[c_idx] IN
          /\ invoked' = Append(invoked, plugin)
          /\ IF plugin_answers[plugin] = "terminal"
               THEN /\ outcome' = <<"plugin", plugin>>
                    /\ c_pc' = "done"
                    /\ UNCHANGED c_idx
               ELSE /\ c_idx' = c_idx + 1
                    /\ UNCHANGED <<outcome, c_pc>>
    /\ UNCHANGED <<inputVars, entriesVars, treeVars, chunkVars, definesVars, plugin_answers,
                   default_answer>>

\* every before-plugin declined: the default resolution algorithm runs
P_Default ==
    /\ c_pc = "before"
    /\ c_idx > Len(resolve_options_context.before_resolve_plugins)
    /\ invoked' = Append(invoked, "default")
    /\ outcome' = <<"default", default_answer>>
    /\ c_pc' = "after"
    /\ c_idx' = 1
    /\ UNCHANGED <<inputVars, entriesVars, treeVars, chunkVars, definesVars, plugin_answers,
                   default_answer>>

\* the next after-plugin runs over the default algorithm's result
P_After ==
    /\ c_pc = "after"
    /\ c_idx <= Len(resolve_options_context.after_resolve_plugins)
    /\ LET plugin == resolve_options_context.after_resolve_plugins[c_idx] IN
          /\ invoked' = Append(invoked, plugin)
          /\ IF plugin_answers[plugin] = "terminal"
               THEN /\ outcome' = <<"plugin", plugin>>
                    /\ c_pc' = "done"
                    /\ UNCHANGED c_idx
               ELSE /\ c_idx' = c_idx + 1
                    /\ UNCHANGED <<outcome, c_pc>>
    /\ UNCHANGED <<inputVars, entriesVars, treeVars, chunkVars, definesVars, plugin_answers,
                   default_answer>>

\* every after-plugin declined: the default algorithm's result stands
P_Finish ==
    /\ c_pc = "after"
    /\ c_idx > Len(resolve_options_context.after_resolve_plugins)
    /\ c_pc' = "done"
    /\ UNCHANGED <<inputVars, entriesVars, treeVars, chunkVars, definesVars, plugin_answers,
                   default_answer, c_idx, invoked, outcome>>

(***************************************************************************)
(* get_client_chunking_context                                             *)
(***************************************************************************)
AssetPrefixes == {None, Some("/_next/")}

ModuleIdStrategies == {"DevModuleIdStrategy", "GlobalModuleIdStrategy"}

\* faulty variant: hot module replacement whatever the mode
HotModuleReplacementAlways(m) == TRUE

\* line 373: if next_mode.is_development()
HotModuleReplacementWanted(m) == is_development(m)

\* lines 359-367: BrowserChunkingContext::builder(..); what no setter has set
\* yet holds the builder's default, hot module replacement off
NewBuilder ==
    [context_path |-> project_root,
     output_root |-> Call("client_root", <<project_root>>),
     client_root |-> Call("client_root", <<project_root>>),
     chunk_root_path |-> <<Call("client_root", <<project_root>>), "static/chunks">>,
     asset_root_path |-> <<Call("client_root", <<project_root>>), "static/media">>,
     environment |-> "environment",
     runtime_type |-> Call("runtime_type", <<mode>>),
     chunk_base_path |-> None,
     asset_base_path |-> None,
     minify_type |-> "NoMinify",
     module_id_strategy |-> "DevModuleIdStrategy",
     enable_hot_module_replacement |-> FALSE]

ChunkIdle ==
    /\ asset_prefix = None /\ module_id_strategy = "DevModuleIdStrategy"
    /\ builder = <<>> /\ k_pc = "idle" /\ build_calls = 0 /\ chunking_context = <<>>

ChunkInit ==
    /\ asset_prefix \in AssetPrefixes
    /\ module_id_strategy \in ModuleIdStrategies
    /\ builder = <<>> /\ k_pc = "start" /\ build_calls = 0 /\ chunking_context = <<>>

\* lines 359-367
K_NewBuilder ==
    /\ k_pc = "start"
    /\ builder' = NewBuilder
    /\ k_pc' = "chunk_base_path"
    /\ UNCHANGED <<inputVars, entriesVars, treeVars, chainVars, definesVars, asset_prefix,
                   module_id_strategy, build_calls, chunking_context>>

\* line 368
K_ChunkBasePath ==
    /\ k_pc = "chunk_base_path"
    /\ builder' = [builder EXCEPT !.chunk_base_path = asset_prefix]
    /\ k_pc' = "minify_type"
    /\ UNCHANGED <<inputVars, entriesVars, treeVars, chainVars, definesVars, asset_prefix,
                   module_id_strategy, build_calls, chunking_context>>

\* line 369
K_MinifyType ==
    /\ k_pc = "minify_type"
    /\ builder' = [builder EXCEPT !.minify_type = Call("minify_type", <<mode>>)]
    /\ k_pc' = "asset_base_path"
    /\ UNCHANGED <<inputVars, entriesVars, treeVars, chainVars, definesVars, asset_prefix,
                   module_id_strategy, build_calls, chunking_context>>

\* line 370
K_AssetBasePath ==
    /\ k_pc = "asset_base_path"
    /\ builder' = [builder EXCEPT !.asset_base_path = asset_prefix]
    /\ k_pc' = "module_id_strategy"
    /\ UNCHANGED <<inputVars, entriesVars, treeVars, chainVars, definesVars, asset_prefix,
                   module_id_strategy, build_calls, chunking_context>>

\* line 371
K_ModuleIdStrategy ==
    /\ k_pc = "module_id_strategy"
    /\ builder' = [builder EXCEPT !.module_id_strategy = module_id_strategy]
    /\ k_pc' = "hot_module_replacement"
    /\ UNCHANGED <<inputVars, entriesVars, treeVars, chainVars, definesVars, asset_prefix,
                   module_id_strategy, build_calls, chunking_context>>

\* lines 373-375
K_HotModuleReplacement ==
    /\ k_pc = "hot_module_replacement"
    /\ builder' = IF HotModuleReplacementWanted(mode)
                    THEN [builder EXCEPT !.enable_hot_module_replacement = TRUE]
                    ELSE builder
    /\ k_pc' = "build"
    /\ UNCHANGED <<inputVars, entriesVars, treeVars, chainVars, definesVars, asset_prefix,
                   module_id_strategy, build_calls, chunking_context>>

\* line 377: builder.build() consumes the builder
K_Build ==
    /\ k_pc = "build"
    /\ chunking_context' = builder
    /\ builder' = <<>>
    /\ build_calls' = build_calls + 1
    /\ k_pc' = "done"
    /\ UNCHANGED <<inputVars, entriesVars, treeVars, chainVars, definesVars, asset_prefix,
                   module_id_strategy>>

(***************************************************************************)
(* defines                                                                 *)
(***************************************************************************)
\* Strings are sequences of characters.
MaxEnv == 2

Whitespace == {" ", "\t", "\n", "\r"}

RECURSIVE TrimLeft(_)
TrimLeft(s) == IF s # <<>> /\ s[1] \in Whitespace THEN TrimLeft(Tail(s)) ELSE s

RECURSIVE TrimRight(_)
TrimRight(s) ==
    IF s # <<>> /\ s[Len(s)] \in Whitespace THEN TrimRight(SubSeq(s, 1, Len(s) - 1)) ELSE s

\* The character a backslash escape stands for.
Unescape(c) ==
    CASE c = "\"" -> "\""
      [] c = "\\" -> "\\"
      [] c = "/" -> "/"
      [] c = "n" -> "\n"
      [] c = "t" -> "\t"
      [] c = "r" -> "\r"
      [] OTHER -> ""

\* The rest of a JSON string literal from position i on, `acc` being the text
\* read so far: it must close with a quote that ends the input.
RECURSIVE ScanString(_, _, _)
ScanString(s, i, acc) ==
    IF i > Len(s) THEN <<"Err">>
    ELSE IF s[i] = "\"" THEN (IF i = Len(s) THEN <<"String", acc>> ELSE <<"Err">>)
    ELSE IF s[i] = "\\"
      THEN IF i + 1 <= Len(s) /\ Unescape(s[i + 1]) # ""
             THEN ScanString(s, i + 2, Append(acc, Unescape(s[i + 1])))
             ELSE <<"Err">>
    ELSE IF s[i] \in {"\t", "\n", "\r"} THEN <<"Err">>
    ELSE ScanString(s, i + 1, Append(acc, s[i]))

Digits == {"0", "1", "2", "3", "4", "5", "6", "7", "8", "9"}

IsInteger(s) ==
    /\ s # <<>>
    /\ \A i \in 1..Len(s) : s[i] \in Digits
    /\ Len(s) > 1 => s[1] # "0"

\* serde_json::from_str::<Value>(v): white space around the one value is
\* skipped. Bool and String are told apart from everything else; a text that
\* opens an object or an array is an object, an array or an error, which the
\* caller does not tell apart.
from_str(v) ==
    LET s == TrimRight(TrimLeft(v)) IN
    IF s = <<"t", "r", "u", "e">> THEN <<"Bool", TRUE>>
    ELSE IF s = <<"f", "a", "l", "s", "e">> THEN <<"Bool", FALSE>>
    ELSE IF s = <<"n", "u", "l", "l">> THEN <<"Null">>
    ELSE IF s # <<>> /\ s[1] = "\"" THEN ScanString(s, 2, <<>>)
    ELSE IF IsInteger(s) THEN <<"Number">>
    ELSE IF s # <<>> /\ s[1] \in {"{", "["} THEN <<"ObjectOrArrayOrErr">>
    ELSE <<"Err">>

\* faulty variant: a String define keeps the literal's text, quotes included
ClassifyKeepsQuotes(v) ==
    LET val == from_str(v) IN
    IF val[1] = "Bool" THEN <<"Bool", val[2]>>
    ELSE IF val[1] = "String" THEN <<"String", v>>
    ELSE <<"JSON", v>>

\* lines 73-78: the closure of or_insert_with
Classify(v) ==
    LET val == from_str(v) IN
    IF val[1] = "Bool" THEN <<"Bool", val[2]>>
    ELSE IF val[1] = "String" THEN <<"String", val[2]>>
    ELSE <<"JSON", v>>

\* k.split('.').collect(): the pieces between the dots, empty ones included
RECURSIVE split(_)
split(k) ==
    IF k = <<>> THEN <<<<>>>>
    ELSE LET rest == split(Tail(k)) IN
         IF k[1] = "."
           THEN <<<<>>>> \o rest
           ELSE <<<<k[1]>> \o rest[1]>> \o Tail(rest)

\* defines.entry(key).or_insert_with(value): an occupied entry is left alone
or_insert_with(map, key, value) ==
    IF \E j \in 1..Len(map) : map[j][1] = key THEN map ELSE Append(map, <<key, value>>)

EnvKeys == {<<"F">>, <<"F", ".", "B">>, <<"F", ".">>}

EnvValues ==
    {<<"t", "r", "u", "e">>,
     <<"f", "a", "l", "s", "e">>,
     <<" ", "t", "r", "u", "e", "\n">>,
     <<"T", "r", "u", "e">>,
     <<"\"", "h", "i", "\"">>,
     <<"\"", "a", "\\", "n", "\"">>,
     <<"\"", "h", "i">>,
     <<"\"", "h", "\"", "i">>,
     <<"4", "2">>,
     <<"n", "u", "l", "l">>,
     <<"{", "}">>,
     <<>>}

\* An IndexMap holds each key once.
EnvMaps ==
    {m \in UNION {[1..n -> EnvKeys \X EnvValues] : n \in 0..MaxEnv} :
        \A i, j \in 1..Len(m) : m[i][1] = m[j][1] => i = j}

DefinesIdle ==
    /\ define_env = <<>> /\ d_pc = "idle" /\ d_i = 0 /\ defines = <<>> /\ d_result = <<>>

DefinesInit ==
    /\ define_env \in EnvMaps
    /\ d_pc = "loop" /\ d_i = 1 /\ defines = <<>> /\ d_result = <<>>

\* lines 69-80: one iteration of the loop
D_Entry ==
    /\ d_pc = "loop"
    /\ d_i <= Len(define_env)
    /\ LET k == define_env[d_i][1]
           v == define_env[d_i][2]
       IN  defines' = or_insert_with(defines, split(k), Classify(v))
    /\ d_i' = d_i + 1
    /\ UNCHANGED <<inputVars, entriesVars, treeVars, chainVars, chunkVars, define_env,
                   d_pc, d_result>>

\* line 82
D_Return ==
    /\ d_pc = "loop"
    /\ d_i > Len(define_env)
    /\ d_result' = <<"CompileTimeDefines", defines>>
    /\ d_pc' = "done"
    /\ UNCHANGED <<inputVars, entriesVars, treeVars, chainVars, chunkVars, define_env,
                   d_i, defines>>

(***************************************************************************)
(* Specification                                                           *)
(***************************************************************************)
\* Each function is called with the arguments it takes; an argument it does
\* not take keeps a fixed value.
Init ==
    \/ /\ call = "get_client_runtime_entries"
       /\ ty \in ClientContextType /\ mode \in NextMode /\ project_root \in ProjectRoots
       /\ EntriesInit /\ TreeIdle /\ ChainIdle /\ ChunkIdle /\ DefinesIdle
    \/ /\ call = "get_client_module_options_context"
       /\ ty \in ClientContextType /\ mode \in NextMode /\ project_root \in ProjectRoots
       /\ TreeInit /\ EntriesIdle /\ ChainIdle /\ ChunkIdle /\ DefinesIdle
    \/ /\ call = "get_client_chunking_context"
       /\ ty = "Other" /\ mode \in NextMode /\ project_root \in ProjectRoots
       /\ ChunkInit /\ EntriesIdle /\ TreeIdle /\ ChainIdle /\ DefinesIdle
    \/ /\ call = "defines"
       /\ ty = "Other" /\ mode = "Build" /\ project_root = "[project]/app1"
       /\ DefinesInit /\ EntriesIdle /\ TreeIdle /\ ChainIdle /\ ChunkIdle

Next ==
    \/ E_CheckMode
    \/ E_Probe
    \/ E_AppEntry
    \/ E_Return
    \/ T_BuildResolveOptions
    \/ T_BuildModuleOptions
    \/ R_Start
    \/ R_Descend
    \/ R_Skip
    \/ R_Return
    \/ P_Start
    \/ P_Before
    \/ P_Default
    \/ P_After
    \/ P_Finish
    \/ K_NewBuilder
    \/ K_ChunkBasePath
    \/ K_MinifyType
    \/ K_AssetBasePath
    \/ K_ModuleIdStrategy
    \/ K_HotModuleReplacement
    \/ K_Build
    \/ D_Entry
    \/ D_Return

Spec == Init /\ [][Next]_vars

(***************************************************************************)
(* Properties of get_client_runtime_entries                                *)
(***************************************************************************)
IsRefreshEntry(e) == e.request \in RefreshRequests

IsAppEntry(e) == e.request = AppBootstrapRequest

EntriesDone == call = "get_client_runtime_entries" /\ e_pc = "done"

\* C1: in development mode with the probe giving a request and the App target
\* the call returns exactly [refresh entry, app bootstrap entry]; outside
\* development mode the returned list holds no refresh entry, whatever the
\* probe answers and whatever the target type is.
C1_RuntimeEntryOrdering ==
    EntriesDone =>
        /\ (is_development(mode) /\ probe[1] = "Found" /\ ty = "App") =>
               e_result = <<"Ok", <<RuntimeEntryRequest(probe[2], project_root),
                                    RuntimeEntryRequest(AppBootstrapRequest, project_root)>>>>
        /\ ~is_development(mode) =>
               /\ e_result[1] = "Ok"
               /\ \A i \in 1..Len(e_result[2]) : ~IsRefreshEntry(e_result[2][i])

C1_Witness ==
    /\ EntriesDone
    /\ is_development(mode) /\ probe[1] = "Found" /\ ty = "App"
    /\ Len(e_result[2]) = 2

\* C2: at every step of building the list, a refresh entry in the list is at
\* index 1 (nothing is ever before it), and the app bootstrap entry is in the
\* list only after the refresh decision was made.
C2_RefreshPrecedes ==
    call = "get_client_runtime_entries" =>
        /\ \A i \in 1..Len(runtime_entries) : IsRefreshEntry(runtime_entries[i]) => i = 1
        /\ (\E i \in 1..Len(runtime_entries) : IsAppEntry(runtime_entries[i]))
               => e_pc \in {"return", "done"}
        /\ (e_pc = "done" /\ e_result[1] = "Ok") => e_result[2] = runtime_entries

C2_Witness ==
    /\ call = "get_client_runtime_entries"
    /\ e_pc = "return"
    /\ Len(runtime_entries) = 2
    /\ IsRefreshEntry(runtime_entries[1])
    /\ IsAppEntry(runtime_entries[2])

\* C9: in development mode, when the probe answers that the support module is
\* not resolvable, the call still succeeds; its list has no refresh entry and
\* holds the app bootstrap entry exactly when the target type is App.
C9_ProbeNotFoundDegrades ==
    (EntriesDone /\ is_development(mode) /\ probe = <<"NotFound">>) =>
        e_result = <<"Ok", IF ty = "App"
                             THEN <<RuntimeEntryRequest(AppBootstrapRequest, project_root)>>
                             ELSE <<>>>>

C9_Witness ==
    /\ EntriesDone /\ is_development(mode) /\ probe = <<"NotFound">>
    /\ ty = "App"
    /\ e_result[1] = "Ok" /\ Len(e_result[2]) = 1

(***************************************************************************)
(* Properties of the configuration trees                                   *)
(***************************************************************************)
TreeOf(t) ==
    IF t = "module_options_context" THEN module_options_context ELSE resolve_options_context

\* The context reached from `n` by descending into the rules numbered by `d`.
RECURSIVE NodeAt(_, _)
NodeAt(n, d) == IF d = <<>> THEN n ELSE NodeAt(n.rules[d[1]][2], Tail(d))

FirstMatch(n, p, i) ==
    /\ i \in 1..Len(n.rules)
    /\ matches(n.rules[i][1], p)
    /\ \A j \in 1..(i - 1) : ~matches(n.rules[j][1], p)

\* The roots of the three embedded file systems are the internal-assets roots.
InsideEmbeddedRoot(p) == p.fs \in {"next", "turbopack_runtime", "turbopack_node"}

ResolvedModule == t_pc = "resolved" /\ tree = "module_options_context"

HasInternalSettings(ctx) ==
    /\ ctx.ecmascript.enable_typescript_transform = Some("TypescriptTransformOptions::default")
    /\ ctx.ecmascript.enable_jsx = Some("JsxTransformOptions::default")

\* C3 as stated: every path inside an internal-assets root resolves to the
\* internal-assets settings, whether or not it matches the foreign condition.
C3_InternalAlwaysWins ==
    (ResolvedModule /\ InsideEmbeddedRoot(path)) =>
        HasInternalSettings(resolved)

\* C3, amended: a path inside an internal-assets root resolves to the
\* internal-assets settings when it does not match the foreign-code condition,
\* and to the foreign-code settings when it does.
C3_InternalUnlessForeign ==
    (ResolvedModule /\ InsideEmbeddedRoot(path)) =>
        IF matches(foreign_condition, path)
          THEN /\ descents = <<1>>
               /\ resolved.module_rules = foreign_next_client_rules
               /\ ~HasInternalSettings(resolved)
          ELSE /\ descents = <<2>>
               /\ HasInternalSettings(resolved)
               /\ resolved.module_rules = <<>>

C3_Witness ==
    /\ ResolvedModule
    /\ InsideEmbeddedRoot(path)
    /\ ~matches(foreign_condition, path)
    /\ path.fs = "turbopack_node"
    /\ HasInternalSettings(resolved)

\* C4: resolve descends only into the first listed rule whose condition
\* matches the path, in both trees; the transform tree lists the foreign-code
\* condition first and the internal-assets condition second, and a path that
\* matches the foreign-code condition resolves to the foreign-code settings.
C4_FirstMatchWins ==
    /\ t_pc \in {"resolving", "resolved"} =>
           /\ \A k \in 1..Len(descents) :
                  FirstMatch(NodeAt(TreeOf(tree), SubSeq(descents, 1, k - 1)), path, descents[k])
           /\ node = NodeAt(TreeOf(tree), descents)
    /\ t_pc = "resolved" =>
           /\ resolved = NodeAt(TreeOf(tree), descents)
           /\ \A i \in 1..Len(resolved.rules) : ~matches(resolved.rules[i][1], path)
    /\ module_options_context # <<>> =>
           /\ Len(module_options_context.rules) = 2
           /\ module_options_context.rules[1][1] = foreign_condition
           /\ \A p \in Paths :
                  matches(module_options_context.rules[2][1], p) = InsideEmbeddedRoot(p)
    /\ (ResolvedModule /\ matches(foreign_condition, path)) =>
           /\ descents = <<1>>
           /\ resolved.module_rules = foreign_next_client_rules
           /\ resolved.ecmascript.enable_typeof_window_inlining = None

C4_Witness ==
    /\ ResolvedModule
    /\ matches(foreign_condition, path)
    /\ InsideEmbeddedRoot(path)
    /\ descents = <<1>>

\* The settings fields of a ModuleOptionsContext, nested ones by their path;
\* the rules list is not one of them.
ModuleLeaves ==
    {<<f>> : f \in DOMAIN DefaultModuleOptionsContext \ {"ecmascript", "css", "rules"}}
    \cup {<<"ecmascript", f>> : f \in DOMAIN DefaultEcmascriptOptionsContext}
    \cup {<<"css", f>> : f \in DOMAIN DefaultCssOptionsContext}

ResolveLeaves == {<<f>> : f \in DOMAIN DefaultResolveOptionsContext \ {"rules"}}

Leaf(ctx, l) == IF Len(l) = 1 THEN ctx[l[1]] ELSE ctx[l[1]][l[2]]

\* The fields a struct literal names, nested ones by their path.
OverLeaves(over, ecmascriptOver, cssOver) ==
    {<<f>> : f \in DOMAIN over \ {"ecmascript", "css", "rules"}}
    \cup {<<"ecmascript", f>> : f \in DOMAIN ecmascriptOver}
    \cup {<<"css", f>> : f \in DOMAIN cssOver}

ForeignLeaves == OverLeaves(ForeignOver, ForeignEcmascriptOver, <<>>)

InternalLeaves == OverLeaves(InternalOver, InternalEcmascriptOver, <<>>)

ModuleRootLeaves == OverLeaves(ModuleRootOver, ModuleRootEcmascriptOver, ModuleRootCssOver)

ResolveRuleLeaves == OverLeaves(ResolveBaseOver, <<>>, <<>>)

ResolveRootLeaves == OverLeaves(ResolveRootOver, <<>>, <<>>)

TreesBuilt == t_pc = "built"

\* C5 as stated: every field a child's construction does not override equals
\* the same field of the root's own settings.
C5_ChildInheritsRoot ==
    TreesBuilt =>
        /\ \A l \in ModuleLeaves \ ForeignLeaves :
               Leaf(module_options_context.rules[1][2], l) = Leaf(module_options_context, l)
        /\ \A l \in ModuleLeaves \ InternalLeaves :
               Leaf(module_options_context.rules[2][2], l) = Leaf(module_options_context, l)
        /\ \A l \in ResolveLeaves \ ResolveRuleLeaves :
               Leaf(resolve_options_context.rules[1][2], l) = Leaf(resolve_options_context, l)

\* C5, amended: every field a child's construction does not override equals
\* the same field of the base context the child is copied from (the first
\* module_options_context of its builder), and so equals the root's for every
\* field that the root's own literal does not override either.
C5_ChildInheritsBase ==
    TreesBuilt =>
        /\ \A l \in ModuleLeaves \ ForeignLeaves :
               /\ Leaf(module_options_context.rules[1][2], l) = Leaf(ModuleBase, l)
               /\ l \notin ModuleRootLeaves =>
                      Leaf(module_options_context.rules[1][2], l)
                          = Leaf(module_options_context, l)
        /\ \A l \in ModuleLeaves \ InternalLeaves :
               /\ Leaf(module_options_context.rules[2][2], l) = Leaf(ModuleBase, l)
               /\ l \notin ModuleRootLeaves =>
                      Leaf(module_options_context.rules[2][2], l)
                          = Leaf(module_options_context, l)
        /\ \A l \in ResolveLeaves :
               /\ Leaf(resolve_options_context.rules[1][2], l) = Leaf(ResolveBase, l)
               /\ l \notin ResolveRootLeaves =>
                      Leaf(resolve_options_context.rules[1][2], l)
                          = Leaf(resolve_options_context, l)

C5_Witness ==
    /\ TreesBuilt
    /\ module_options_context.rules[1][2].preset_env_versions = Some("env")
    /\ module_options_context.preset_env_versions = Some("env")
    /\ module_options_context.rules[1][2].ecmascript.enable_jsx = None
    /\ module_options_context.ecmascript.enable_jsx # None
    /\ resolve_options_context.rules[1][2].enable_typescript = FALSE
    /\ resolve_options_context.enable_typescript = TRUE

(***************************************************************************)
(* Properties of the plugin chain                                          *)
(***************************************************************************)
BeforeOrder ==
    <<"InvalidServerOnlyResolvePlugin", "ModuleFeatureReportResolvePlugin",
      "NextFontLocalResolvePlugin">>

AfterOrder == <<"NextSharedRuntimeResolvePlugin">>

\* C6: the chain invokes invalid-server-only, module-feature-report and
\* next-font-local in that order, then the default algorithm, then
\* next-shared-runtime; once an invoked before-plugin answers with a terminal
\* result, that result is the outcome and nothing else is invoked: no later
\* before-plugin and not the default algorithm.
C6_BeforePluginShortCircuits ==
    c_pc # "idle" =>
        /\ resolve_options_context.before_resolve_plugins = BeforeOrder
        /\ resolve_options_context.after_resolve_plugins = AfterOrder
        /\ IsPrefix(invoked, BeforeOrder \o <<"default">> \o AfterOrder)
        /\ \A i \in 1..Len(invoked) :
               (i <= Len(BeforeOrder) /\ plugin_answers[invoked[i]] = "terminal") =>
                   /\ Len(invoked) = i
                   /\ outcome = <<"plugin", invoked[i]>>
                   /\ c_pc = "done"

C6_Witness ==
    /\ c_pc = "done"
    /\ invoked = <<"InvalidServerOnlyResolvePlugin", "ModuleFeatureReportResolvePlugin">>
    /\ plugin_answers["ModuleFeatureReportResolvePlugin"] = "terminal"
    /\ plugin_answers["NextFontLocalResolvePlugin"] = "terminal"
    /\ default_answer = "resolved"
    /\ outcome = <<"plugin", "ModuleFeatureReportResolvePlugin">>

(***************************************************************************)
(* Properties of get_client_chunking_context                               *)
(***************************************************************************)
\* C10: build() runs at most once, after all four setters; the built context
\* has hot module replacement on exactly when the mode is development, and
\* nothing changes that once it is built.
C10_HotReloadOnlyInDevelopment ==
    call = "get_client_chunking_context" =>
        /\ build_calls <= 1
        /\ (chunking_context = <<>>) = (build_calls = 0)
        /\ build_calls = 1 =>
               /\ k_pc = "done"
               /\ builder = <<>>
               /\ chunking_context.enable_hot_module_replacement = is_development(mode)
               /\ chunking_context.chunk_base_path = asset_prefix
               /\ chunking_context.asset_base_path = asset_prefix
               /\ chunking_context.minify_type = Call("minify_type", <<mode>>)
               /\ chunking_context.module_id_strategy = module_id_strategy

C10_Witness ==
    /\ call = "get_client_chunking_context"
    /\ k_pc = "done"
    /\ ~is_development(mode)
    /\ build_calls = 1
    /\ chunking_context.enable_hot_module_replacement = FALSE
    /\ chunking_context.module_id_strategy = "GlobalModuleIdStrategy"

(***************************************************************************)
(* Properties of defines                                                   *)
(***************************************************************************)
\* What the literals of EnvValues are, written out: the boolean literals and
\* their value, the well-formed quoted-string literals and their text.
BoolLiterals ==
    {<<<<"t", "r", "u", "e">>, TRUE>>,
     <<<<"f", "a", "l", "s", "e">>, FALSE>>,
     <<<<" ", "t", "r", "u", "e", "\n">>, TRUE>>}

StringLiterals ==
    {<<<<"\"", "h", "i", "\"">>, <<"h", "i">>>>,
     <<<<"\"", "a", "\\", "n", "\"">>, <<"a", "\n">>>>}

ExpectedDefine(v) ==
    IF \E l \in BoolLiterals : l[1] = v
      THEN <<"Bool", (CHOOSE l \in BoolLiterals : l[1] = v)[2]>>
    ELSE IF \E l \in StringLiterals : l[1] = v
      THEN <<"String", (CHOOSE l \in StringLiterals : l[1] = v)[2]>>
    ELSE <<"JSON", v>>

\* C8: every entry processed so far has its define: a boolean literal gives
\* Bool with its value, a quoted-string literal gives String with the unquoted
\* text, and every other value gives JSON with the original text; no key is
\* left without an entry.
C8_DefineClassification ==
    call = "defines" =>
        /\ Len(defines) = d_i - 1
        /\ \A j \in 1..Len(defines) :
               /\ defines[j][1] = split(define_env[j][1])
               /\ defines[j][2] = ExpectedDefine(define_env[j][2])
        /\ d_pc = "done" =>
               /\ d_result = <<"CompileTimeDefines", defines>>
               /\ Len(defines) = Len(define_env)

C8_Witness ==
    /\ call = "defines"
    /\ d_pc = "done"
    /\ Len(defines) = 2
    /\ defines[1] = <<<<<<"F">>, <<"B">>>>, <<"String", <<"a", "\n">>>>>>
    /\ defines[2] = <<<<<<"F">>, <<>>>>, <<"JSON", <<"\"", "h", "i">>>>>>

\* Two keys of an IndexMap never split into the same segment path, so the loop
\* of defines never meets an occupied entry.
DefinesNeverCollide ==
    call = "defines" =>
        \A i, j \in 1..Len(define_env) :
            split(define_env[i][1]) = split(define_env[j][1]) => i = j

====
